---- MODULE Spec2Model ----
(***************************************************************************)
(* Model of code-radio-cli's src/main.rs: startup validation, the audio    *)
(* player start, the metadata websocket receive loop with its bounded      *)
(* reconnect, the now-playing display, the one-second tick task and the    *)
(* keyboard thread, with the two process-wide locks PLAYER and             *)
(* PROGRESS_BAR.                                                           *)
(***************************************************************************)
EXTENDS Integers, Sequences, FiniteSets, TLC

VARIABLES
    pcMain,            \* position of the main task (main / start / start_playing)
    args,              \* Args::parse(): [volume, select_station]
    selected_station,  \* Option<Remote>, line 59
    connectTask,       \* websocket_connect_task, line 67
    ws,                \* websocket_stream: [open, openedBy]
    PLAYER,            \* static PLAYER: Option<Player>, line 28
    PROGRESS_BAR,      \* static PROGRESS_BAR: Option<ProgressBar>, line 29
    locks,             \* holder of each Mutex: "free" or a unit
    listen_url,        \* Option<String>, line 88
    first_receive,     \* how the receive of lines 181-187 failed, "" once the reconnect loop runs
    stations,          \* local of the first-message block, line 100
    listen_url_value,  \* local of the first-message block, line 102
    last_song_id,      \* String, line 89
    message,           \* Option<CodeRadioMessage>: the message in hand, line 95
    retry_count,       \* line 191
    progress_bar_preffix, \* local of update_song_info_on_screen, line 234
    error,             \* the Err start() has returned, "" while none
    exitStatus,        \* Option<exit status of the process>
    pcTick,            \* position of the tick task, lines 312-320
    pcKbd,             \* position of the keyboard thread, lines 322-337
    key,               \* the digit the keyboard thread has read, line 324
    screen,            \* song header lines written by writeline!, lines 246-249
    received,          \* history: messages received and parsed, in arrival order
    delivered,         \* history: messages handed to update_song_info_on_screen
    attemptLog,        \* history: outcomes of the reconnect attempts made for the message awaited
    lastVia,           \* history: how the message in hand arrived
    calls              \* history: counters of play, set_volume, thread starts, ...;
                       \* attempts, handshakes and backoffs count the reconnect attempts
                       \* started, the handshakes that succeeded and the sleeps of line 201
                       \* for the message awaited

vars == << pcMain, args, selected_station, connectTask, ws, PLAYER, PROGRESS_BAR,
           locks, listen_url, first_receive, stations, listen_url_value, last_song_id, message, retry_count,
           progress_bar_preffix, error, exitStatus, pcTick, pcKbd, key, screen,
           received, delivered, attemptLog, lastVia, calls >>

mainVars == << pcMain, args, selected_station, connectTask, ws, listen_url, first_receive,
               stations,
               listen_url_value, last_song_id, message, retry_count,
               progress_bar_preffix, error, exitStatus >>
histVars == << received, delivered, attemptLog, lastVia >>

----------------------------------------------------------------------------
(* Option<T> *)
None == << >>
Some(x) == << x >>
IsSome(o) == o # << >>
Unwrap(o) == o[1]

----------------------------------------------------------------------------
(* Bounds of the model *)
MaxMsgs == 2      \* messages received over one run
MaxPos == 2       \* progress positions the tick task may reach
MaxKeys == 1      \* digits the keyboard thread reads over one run

----------------------------------------------------------------------------
(* Inputs *)

\* --volume values given on the command line (a u8)
ArgVolumes == {0, 9, 10}

\* characters terminal::read_char may return
KeyChars == {"0", "9", "q"}

NoRemotes == << >>

\* CodeRadioMessage values the endpoint may send
Messages == <<
    [ station |-> [ listen_url |-> "u0",
                    remotes |-> << [id |-> 3, name |-> "r3", url |-> "u3"],
                                   [id |-> 1, name |-> "r1", url |-> "u1"] >>,
                    mounts  |-> << [id |-> 1, name |-> "m1", url |-> "v1", bitrate |-> 64] >> ],
      now_playing |-> [ song |-> [id |-> "a", title |-> "A", artist |-> "x", album |-> "k"],
                        elapsed |-> 1, duration |-> 0 ],
      listeners |-> [current |-> 5] ],
    [ station |-> [ listen_url |-> "u1",
                    remotes |-> << [id |-> 1, name |-> "r1", url |-> "u1"] >>,
                    mounts  |-> NoRemotes ],
      now_playing |-> [ song |-> [id |-> "a", title |-> "A", artist |-> "x", album |-> "k"],
                        elapsed |-> 2, duration |-> 3 ],
      listeners |-> [current |-> 6] ],
    [ station |-> [ listen_url |-> "u1",
                    remotes |-> << [id |-> 1, name |-> "r1", url |-> "u1"] >>,
                    mounts  |-> NoRemotes ],
      now_playing |-> [ song |-> [id |-> "", title |-> "", artist |-> "", album |-> ""],
                        elapsed |-> 0, duration |-> 0 ],
      listeners |-> [current |-> 0] ]
>>

NumMessages == Len(Messages)

\* what websocket_stream.next() may yield: the stream's end, a transport error,
\* a frame that is no text, a text that is no CodeRadioMessage (body 0), or the
\* JSON text of Messages[body]
Frames == { [kind |-> "end", body |-> 0], [kind |-> "error", body |-> 0],
            [kind |-> "nontext", body |-> 0] }
          \cup { [kind |-> "text", body |-> b] : b \in 0..NumMessages }

----------------------------------------------------------------------------
(* Pure functions *)

DigitChars == << "0", "1", "2", "3", "4", "5", "6", "7", "8", "9" >>

\* Display of a non-negative integer, as u8::to_string and format!("{}") give it
RECURSIVE to_string(_)
to_string(n) ==
    IF n < 10 THEN DigitChars[n + 1]
    ELSE to_string(n \div 10) \o DigitChars[(n % 10) + 1]

\* char::to_digit(10), line 324
to_digit(c) ==
    IF \E d \in 0..9 : DigitChars[d + 1] = c
    THEN Some(CHOOSE d \in 0..9 : DigitChars[d + 1] = c)
    ELSE None

\* terminal::read_char().ok().and_then(|c| c.to_digit(10)), line 324;
\* r is the Result of read_char as an Option (None: Err)
read_digit(r) == IF IsSome(r) THEN to_digit(Unwrap(r)) ELSE None

\* Player of player.rs: the volume level last set and the url being played
Player_try_new == [volume |-> 9, url |-> None]
Player_set_volume(p, v) == [p EXCEPT !.volume = v]
Player_volume(p) == p.volume
Player_play(p, url) == [p EXCEPT !.url = Some(url)]

\* get_progress_bar_prefix, lines 284-287
get_progress_bar_prefix(volume) ==
    LET volume_char == IF IsSome(volume) THEN to_string(Unwrap(volume)) ELSE "*"
    IN  "Volume " \o volume_char \o "/9"

\* get_progress_bar_suffix, lines 289-291
get_progress_bar_suffix(listener_count) == "Listeners: " \o to_string(listener_count)

\* impl From<Mount> for Remote of model.rs, used at line 377
MountToRemote(mount) == [id |-> mount.id, name |-> mount.name, url |-> mount.url]

\* an insertion that puts x in front of the entries of equal key
InsertByKeyBeforeEquals(s, x) ==
    LET k == Cardinality({ i \in 1..Len(s) : s[i].id < x.id })
    IN  SubSeq(s, 1, k) \o << x >> \o SubSeq(s, k + 1, Len(s))

\* Vec::sort_by_key(|s| s.id), line 379: a stable sort, as an insertion sort
InsertByKey(s, x) ==
    LET k == Cardinality({ i \in 1..Len(s) : s[i].id <= x.id })
    IN  SubSeq(s, 1, k) \o << x >> \o SubSeq(s, k + 1, Len(s))

RECURSIVE sort_by_key(_)
sort_by_key(s) ==
    IF s = << >> THEN << >>
    ELSE InsertByKey(sort_by_key(SubSeq(s, 1, Len(s) - 1)), s[Len(s)])

\* get_stations_from_api_message, lines 371-381
get_stations_from_api_message(m) ==
    LET mounts == m.station.mounts
        pushed == m.station.remotes \o [ i \in 1..Len(mounts) |-> MountToRemote(mounts[i]) ]
    IN  sort_by_key(pushed)

\* stations.iter().find(|s| s.id == id), lines 103-105
find_by_id(list, id) ==
    LET hits == { i \in 1..Len(list) : list[i].id = id }
    IN  IF hits = {} THEN None
        ELSE Some(list[CHOOSE i \in hits : \A j \in hits : i <= j])

\* list.iter().find(|s| s.name == name), lines 354-356
find_by_name(list, name) ==
    LET hits == { i \in 1..Len(list) : list[i].name = name }
    IN  IF hits = {} THEN None
        ELSE Some(list[CHOOSE i \in hits : \A j \in hits : i <= j])

\* a choice of url that ignores the selected station
ListenUrlValueDefaultOnly(selected, m) == Some(m.station.listen_url)

\* The match of lines 102-110: Some(url), or None when `?` returns the
\* "Station with ID ... not found" error
ListenUrlValue(selected, m) ==
    IF IsSome(selected)
    THEN LET found == find_by_id(get_stations_from_api_message(m), Unwrap(selected).id)
         IN  IF IsSome(found) THEN Some(Unwrap(found).url) ELSE None
    ELSE Some(m.station.listen_url)

\* Lines 181-183: which of the three `if let` fails on a frame that yields no
\* message: Some(Ok(..)) on the stream's end or an error, into_text on a
\* frame that is no text, from_str on any other text
ReceiveFailure(f) == IF f.kind = "text" THEN "unparsed" ELSE f.kind

\* Lines 181-183 and 214-220: Some(Ok(message)), message.into_text() and
\* serde_json::de::from_str must all succeed
ParseFrame(f) ==
    IF f.kind = "text" /\ f.body \in 1..NumMessages THEN Some(Messages[f.body]) ELSE None

\* a volume check that lets 10 through
VolumeOutOfRangeOffByOne(volume) == volume > 10

\* args.volume > 9, line 45
VolumeOutOfRange(volume) == volume > 9

\* a retry budget of one attempt less
RetryBudgetShort == 3 - 1

\* let mut retry_count = 3, line 191
RetryBudget == 3

\* a countdown that gives up one attempt early
RetriesExhaustedEarly(count) == count <= 1

\* retry_count == 0, line 198
RetriesExhausted(count) == count = 0

\* a first-message test that is always true
IsFirstMessageAlways == TRUE

\* listen_url.is_none(), line 96
IsFirstMessage == listen_url = None

\* song.id != *last_song_id, line 239
SongChanged(song_id, last) == song_id # last

\* u64 values, lines 251-255, 271, 279 and 297: four 16-bit limbs, the most
\* significant first, so that the whole range of the type is told apart
Limb == 65536
U64(n) == << 0, 0, n \div Limb, n % Limb >>

\* u64::MAX, line 254
U64_MAX == << Limb - 1, Limb - 1, Limb - 1, Limb - 1 >>

\* `x as u64` of an integer of the message, lines 252, 271 and 279: the value
\* itself, or its two's complement when it is negative
AsU64(x) ==
    IF x >= 0 THEN U64(x)
    ELSE [ i \in 1..4 |-> (Limb - 1) - U64((-x) - 1)[i] ]

\* ProgressBar::inc(1), line 317: the position plus one, wrapping
U64Inc(x) ==
    IF x = U64_MAX THEN U64(0)
    ELSE LET k == CHOOSE i \in 1..4 :
                    x[i] # Limb - 1 /\ \A j \in (i + 1)..4 : x[j] = Limb - 1
         IN  [ i \in 1..4 |-> IF i < k THEN x[i] ELSE IF i = k THEN x[i] + 1 ELSE 0 ]

\* x < y on u64 values
U64Less(x, y) ==
    \E i \in 1..4 : x[i] < y[i] /\ \A j \in 1..(i - 1) : x[j] = y[j]

\* quotient and remainder of a u64 value by a small divisor
U64DivMod(x, d) ==
    LET c1 == x[1]
        c2 == (c1 % d) * Limb + x[2]
        c3 == (c2 % d) * Limb + x[3]
        c4 == (c3 % d) * Limb + x[4]
    IN  [ q |-> << c1 \div d, c2 \div d, c3 \div d, c4 \div d >>, r |-> c4 % d ]

\* Display of a u64 value
RECURSIVE U64ToString(_)
U64ToString(x) ==
    IF U64Less(x, U64(10)) THEN DigitChars[x[4] + 1]
    ELSE LET dm == U64DivMod(x, 10)
         IN  U64ToString(dm.q) \o DigitChars[dm.r + 1]

\* the reported total taken as the bar's length whatever it is
ProgressBarLenAsReported(total_seconds) == AsU64(total_seconds)

\* lines 251-255
ProgressBarLen(total_seconds) ==
    IF total_seconds > 0 THEN AsU64(total_seconds) ELSE U64_MAX

\* utils::humanize_seconds_to_minutes_and_seconds of utils.rs: "mm:ss", as in
\* the example of lines 293-296: minutes and seconds, each of two digits at least
TwoDigits(n) == IF n < 10 THEN "0" \o to_string(n) ELSE to_string(n)
humanize_seconds_to_minutes_and_seconds(seconds) ==
    LET dm == U64DivMod(seconds, 60)
        minutes == IF U64Less(dm.q, U64(10)) THEN "0" \o U64ToString(dm.q)
                   ELSE U64ToString(dm.q)
    IN  minutes \o ":" \o TwoDigits(dm.r)

\* get_progress_bar_progress_info, lines 297-310
get_progress_bar_progress_info(elapsed_seconds, total_seconds) ==
    LET humanized_elapsed_duration ==
            humanize_seconds_to_minutes_and_seconds(elapsed_seconds)
    IN  IF IsSome(total_seconds) /\ Unwrap(total_seconds) # U64_MAX
        THEN humanized_elapsed_duration \o " / " \o
               humanize_seconds_to_minutes_and_seconds(Unwrap(total_seconds))
        ELSE humanized_elapsed_duration

\* the progress_info key of the bar's template, lines 257-267: the text drawn
\* for a bar from its position and length
ProgressInfo(progress_bar) ==
    get_progress_bar_progress_info(progress_bar.pos, Some(progress_bar.len))

Free == "free"
Holds(unit) == { l \in DOMAIN locks : locks[l] = unit }
Lock(l, unit) == [locks EXCEPT ![l] = unit]
Unlock(l) == [locks EXCEPT ![l] = Free]

\* the process is running: main has not returned
Alive == pcMain # "exit"

Bump(field) == [calls EXCEPT ![field] = @ + 1]

----------------------------------------------------------------------------
(* Initial state: the process has started and Args::parse() has run *)

Init ==
    /\ pcMain = "start"
    /\ args \in [volume : ArgVolumes, select_station : BOOLEAN]
    /\ selected_station = None
    /\ connectTask = "none"
    /\ ws = [open |-> FALSE, openedBy |-> 0]
    /\ PLAYER = None
    /\ PROGRESS_BAR = None
    /\ locks = [PLAYER |-> Free, PROGRESS_BAR |-> Free]
    /\ listen_url = None
    /\ first_receive = ""
    /\ stations = << >>
    /\ listen_url_value = None
    /\ last_song_id = ""
    /\ message = None
    /\ retry_count = 0
    /\ progress_bar_preffix = ""
    /\ error = ""
    /\ exitStatus = None
    /\ pcTick = "none"
    /\ pcKbd = "none"
    /\ key = None
    /\ screen = None
    /\ received = << >>
    /\ delivered = << >>
    /\ attemptLog = << >>
    /\ lastVia = "none"
    /\ calls = [play |-> 0, set_volume |-> 0, kbd |-> 0, tick |-> 0, try_new_failed |-> 0,
                failed |-> 0, new_song |-> 0, keys |-> 0, attempts |-> 0,
                handshakes |-> 0, backoffs |-> 0]

----------------------------------------------------------------------------
(* The main task: main, start, start_playing *)

\* start, lines 42-47: the volume check
Start ==
    /\ pcMain = "start"
    /\ IF VolumeOutOfRange(args.volume)
       THEN /\ error' = "volume"
            /\ pcMain' = "returned"
       ELSE /\ pcMain' = "select_station"
            /\ UNCHANGED error
    /\ UNCHANGED << first_receive, stations, args, selected_station, connectTask, ws, PLAYER, PROGRESS_BAR, locks,
                    listen_url, listen_url_value, last_song_id, message, retry_count,
                    progress_bar_preffix, exitStatus, pcTick, pcKbd, key, screen,
                    received, delivered, attemptLog, lastVia, calls >>

\* start_playing, lines 59-64, with select_station, lines 339-363: the REST
\* request or the prompt may fail; otherwise the user picks one name of the
\* station list of the REST message
SelectStation ==
    /\ pcMain = "select_station"
    /\ \/ /\ ~args.select_station
          /\ pcMain' = "spawn_connect"
          /\ UNCHANGED << selected_station, error >>
       \/ /\ args.select_station
          /\ error' = "select_station"
          /\ pcMain' = "returned"
          /\ UNCHANGED selected_station
       \/ /\ args.select_station
          /\ \E i \in 1..NumMessages :
               LET rest_stations == get_stations_from_api_message(Messages[i])
               IN  \E k \in 1..Len(rest_stations) :
                     selected_station' = find_by_name(rest_stations, rest_stations[k].name)
          /\ pcMain' = "spawn_connect"
          /\ UNCHANGED error
    /\ UNCHANGED << first_receive, stations, args, connectTask, ws, PLAYER, PROGRESS_BAR, locks,
                    listen_url, listen_url_value, last_song_id, message, retry_count,
                    progress_bar_preffix, exitStatus, pcTick, pcKbd, key, screen,
                    received, delivered, attemptLog, lastVia, calls >>

\* line 67: the websocket handshake starts in the background
SpawnConnect ==
    /\ pcMain = "spawn_connect"
    /\ connectTask' = "running"
    /\ pcMain' = "try_new"
    /\ UNCHANGED << first_receive, stations, args, selected_station, ws, PLAYER, PROGRESS_BAR, locks,
                    listen_url, listen_url_value, last_song_id, message, retry_count,
                    progress_bar_preffix, error, exitStatus, pcTick, pcKbd, key, screen,
                    received, delivered, attemptLog, lastVia, calls >>

\* the background handshake of line 67 ends, well or not
ConnectTaskDone ==
    /\ Alive
    /\ connectTask = "running"
    /\ connectTask' \in {"ok", "err"}
    /\ UNCHANGED << pcMain, first_receive, stations, args, selected_station, ws, PLAYER, PROGRESS_BAR, locks,
                    listen_url, listen_url_value, last_song_id, message, retry_count,
                    progress_bar_preffix, error, exitStatus, pcTick, pcKbd, key, screen,
                    received, delivered, attemptLog, lastVia, calls >>

\* a Player::try_new whose error is returned with `?` instead of being shown
PlayerTryNewFatal ==
    /\ pcMain = "try_new"
    /\ locks["PLAYER"] = Free
    /\ \/ /\ PLAYER' = Some(Player_set_volume(Player_try_new, args.volume))
          /\ calls' = Bump("set_volume")
          /\ pcMain' = "await_connect"
          /\ UNCHANGED error
       \/ /\ PLAYER' = None
          /\ calls' = Bump("try_new_failed")
          /\ error' = "device"
          /\ pcMain' = "returned"
    /\ UNCHANGED << first_receive, stations, args, selected_station, connectTask, ws, PROGRESS_BAR, locks,
                    listen_url, listen_url_value, last_song_id, message, retry_count,
                    progress_bar_preffix, exitStatus, pcTick, pcKbd, key, screen,
                    received, delivered, attemptLog, lastVia >>

\* lines 75-84: Player::try_new; on Ok the volume is set and the player stored
\* under the PLAYER lock, on Err the error is shown and the program goes on
PlayerTryNew ==
    /\ pcMain = "try_new"
    /\ locks["PLAYER"] = Free
    /\ \/ /\ PLAYER' = Some(Player_set_volume(Player_try_new, args.volume))
          /\ calls' = Bump("set_volume")
       \/ /\ PLAYER' = None
          /\ calls' = Bump("try_new_failed")
    /\ pcMain' = "await_connect"
    /\ UNCHANGED << first_receive, stations, args, selected_station, connectTask, ws, PROGRESS_BAR, locks,
                    listen_url, listen_url_value, last_song_id, message, retry_count,
                    progress_bar_preffix, error, exitStatus, pcTick, pcKbd, key, screen,
                    received, delivered, attemptLog, lastVia >>

\* lines 91-92: the handshake is awaited (`??`), then the tick task is spawned
AwaitConnect ==
    /\ pcMain = "await_connect"
    /\ connectTask \in {"ok", "err"}
    /\ IF connectTask = "err"
       THEN /\ error' = "connect"
            /\ pcMain' = "returned"
            /\ UNCHANGED << ws, pcTick, calls >>
       ELSE /\ ws' = [open |-> TRUE, openedBy |-> 0]
            /\ pcTick' = "wait"
            /\ calls' = Bump("tick")
            /\ pcMain' = "recv"
            /\ UNCHANGED error
    /\ UNCHANGED << first_receive, stations, args, selected_station, connectTask, PLAYER, PROGRESS_BAR, locks,
                    listen_url, listen_url_value, last_song_id, message, retry_count,
                    progress_bar_preffix, exitStatus, pcKbd, key, screen,
                    received, delivered, attemptLog, lastVia >>

\* a message that is received and parsed but not returned: the loop receives again
ReturnMessageDropped(m, via) ==
    /\ received' = Append(received, m)
    /\ lastVia' = via
    /\ pcMain' = "recv"
    /\ UNCHANGED message

\* return Ok(code_radio_message), lines 184 and 195, bound to `message` at line 95
ReturnMessage(m, via) ==
    /\ message' = Some(m)
    /\ received' = Append(received, m)
    /\ lastVia' = via
    /\ pcMain' = "got"

\* a first receive that returns the channel error when the stream has ended
RecvStreamEndFatal ==
    /\ pcMain = "recv"
    /\ Len(received) < MaxMsgs
    /\ \E f \in Frames :
         IF IsSome(ParseFrame(f))
         THEN /\ ReturnMessage(Unwrap(ParseFrame(f)), "receive")
              /\ UNCHANGED << retry_count, attemptLog, first_receive, error >>
         ELSE IF f.kind = "end"
         THEN /\ error' = "channel"
              /\ pcMain' = "returned"
              /\ UNCHANGED << message, received, lastVia, attemptLog, retry_count,
                              first_receive >>
         ELSE /\ retry_count' = RetryBudget
              /\ first_receive' = ReceiveFailure(f)
              /\ pcMain' = "rc_close"
              /\ UNCHANGED << message, received, lastVia, attemptLog, error >>
    /\ UNCHANGED << stations, args, selected_station, connectTask, ws, PLAYER, PROGRESS_BAR, locks,
                    listen_url, listen_url_value, last_song_id,
                    progress_bar_preffix, exitStatus, pcTick, pcKbd, key, screen,
                    delivered, calls >>

\* a first receive that grants a single attempt once a reconnect has been used
RecvBudgetSpent ==
    /\ pcMain = "recv"
    /\ Len(received) < MaxMsgs
    /\ \E f \in Frames :
         IF IsSome(ParseFrame(f))
         THEN /\ ReturnMessage(Unwrap(ParseFrame(f)), "receive")
              /\ UNCHANGED << retry_count, attemptLog, first_receive >>
         ELSE /\ retry_count' = IF ws.openedBy = 0 THEN RetryBudget ELSE 1
              /\ first_receive' = ReceiveFailure(f)
              /\ pcMain' = "rc_close"
              /\ UNCHANGED << message, received, lastVia, attemptLog >>
    /\ UNCHANGED << stations, args, selected_station, connectTask, ws, PLAYER, PROGRESS_BAR, locks,
                    listen_url, listen_url_value, last_song_id,
                    progress_bar_preffix, error, exitStatus, pcTick, pcKbd, key, screen,
                    delivered, calls >>

\* get_next_websocket_message, lines 181-191: the first receive; a frame that
\* parses is returned, anything else starts the reconnect loop
Recv ==
    /\ pcMain = "recv"
    /\ Len(received) < MaxMsgs
    /\ \E f \in Frames :
         IF IsSome(ParseFrame(f))
         THEN /\ ReturnMessage(Unwrap(ParseFrame(f)), "receive")
              /\ UNCHANGED << retry_count, attemptLog, first_receive >>
         ELSE /\ retry_count' = RetryBudget
              /\ first_receive' = ReceiveFailure(f)
              /\ pcMain' = "rc_close"
              /\ UNCHANGED << message, received, lastVia, attemptLog >>
    /\ UNCHANGED << stations, args, selected_station, connectTask, ws, PLAYER, PROGRESS_BAR, locks,
                    listen_url, listen_url_value, last_song_id,
                    progress_bar_preffix, error, exitStatus, pcTick, pcKbd, key, screen,
                    delivered, calls >>

\* a failed attempt that is retried at once, without the sleep of line 201
AttemptFailedNoBackoff ==
    /\ retry_count' = retry_count - 1
    /\ attemptLog' = Append(attemptLog, "fail")
    /\ IF RetriesExhausted(retry_count')
       THEN /\ error' = "channel"
            /\ pcMain' = "returned"
            /\ calls' = Bump("failed")
       ELSE /\ pcMain' = "rc_close"
            /\ UNCHANGED << error, calls >>

\* lines 196-202: a reconnect attempt has failed
AttemptFailed ==
    /\ retry_count' = retry_count - 1
    /\ attemptLog' = Append(attemptLog, "fail")
    /\ IF RetriesExhausted(retry_count')
       THEN /\ error' = "channel"
            /\ pcMain' = "returned"
            /\ calls' = Bump("failed")
       ELSE /\ pcMain' = "backoff"
            /\ UNCHANGED << error, calls >>

\* an attempt that goes to the handshake without closing the old stream
RcCloseSkipped ==
    /\ pcMain = "rc_close"
    /\ UNCHANGED ws
    /\ first_receive' = ""
    /\ calls' = Bump("attempts")
    /\ pcMain' = "rc_connect"
    /\ UNCHANGED << stations, args, selected_station, connectTask, PLAYER, PROGRESS_BAR, locks,
                    listen_url, listen_url_value, last_song_id, message, retry_count,
                    progress_bar_preffix, error, exitStatus, pcTick, pcKbd, key, screen,
                    received, delivered, attemptLog, lastVia >>

\* reconnect_websocket_and_get_next_message, line 210: the old stream is closed
RcClose ==
    /\ pcMain = "rc_close"
    /\ ws' = [ws EXCEPT !.open = FALSE]
    /\ first_receive' = ""
    /\ calls' = Bump("attempts")
    /\ pcMain' = "rc_connect"
    /\ UNCHANGED << stations, args, selected_station, connectTask, PLAYER, PROGRESS_BAR, locks,
                    listen_url, listen_url_value, last_song_id, message, retry_count,
                    progress_bar_preffix, error, exitStatus, pcTick, pcKbd, key, screen,
                    received, delivered, attemptLog, lastVia >>

\* lines 211-212: the handshake; the stream is replaced only when it succeeds
RcConnect ==
    /\ pcMain = "rc_connect"
    /\ \/ /\ ws' = [open |-> TRUE, openedBy |-> Len(attemptLog) + 1]
          /\ calls' = Bump("handshakes")
          /\ pcMain' = "rc_next"
          /\ UNCHANGED << retry_count, attemptLog, error >>
       \/ /\ AttemptFailed
          /\ UNCHANGED ws
    /\ UNCHANGED << first_receive, stations, args, selected_station, connectTask, PLAYER, PROGRESS_BAR, locks,
                    listen_url, listen_url_value, last_song_id, message,
                    progress_bar_preffix, exitStatus, pcTick, pcKbd, key, screen,
                    received, delivered, lastVia >>

\* a first frame that yields no message is waited out without costing an attempt
RcNextBadFrameFree ==
    /\ pcMain = "rc_next"
    /\ \E f \in Frames :
         IF IsSome(ParseFrame(f))
         THEN /\ ReturnMessage(Unwrap(ParseFrame(f)), "reconnect")
              /\ attemptLog' = Append(attemptLog, "ok")
              /\ UNCHANGED << retry_count, error, calls >>
         ELSE /\ pcMain' = "backoff"
              /\ UNCHANGED << message, received, lastVia, retry_count, attemptLog,
                              error, calls >>
    /\ UNCHANGED << first_receive, stations, args, selected_station, connectTask, ws, PLAYER,
                    PROGRESS_BAR, locks, listen_url, listen_url_value, last_song_id,
                    progress_bar_preffix, exitStatus, pcTick, pcKbd, key, screen,
                    delivered >>

\* lines 214-222 and 195: the first frame of the new stream
RcNext ==
    /\ pcMain = "rc_next"
    /\ \E f \in Frames :
         IF IsSome(ParseFrame(f))
         THEN /\ ReturnMessage(Unwrap(ParseFrame(f)), "reconnect")
              /\ attemptLog' = Append(attemptLog, "ok")
              /\ UNCHANGED << retry_count, error, calls >>
         ELSE /\ AttemptFailed
              /\ UNCHANGED << message, received, lastVia >>
    /\ UNCHANGED << first_receive, stations, args, selected_station, connectTask, ws, PLAYER, PROGRESS_BAR, locks,
                    listen_url, listen_url_value, last_song_id,
                    progress_bar_preffix, exitStatus, pcTick, pcKbd, key, screen,
                    delivered >>

\* line 201: sleep(1 s), then the next attempt
Backoff ==
    /\ pcMain = "backoff"
    /\ calls' = Bump("backoffs")
    /\ pcMain' = "rc_close"
    /\ UNCHANGED << first_receive, stations, args, selected_station, connectTask, ws, PLAYER, PROGRESS_BAR, locks,
                    listen_url, listen_url_value, last_song_id, message, retry_count,
                    progress_bar_preffix, error, exitStatus, pcTick, pcKbd, key, screen,
                    received, delivered, attemptLog, lastVia >>

\* lines 96-110: the first message fixes the url to play; a selected station
\* that the message's station list lacks ends start_playing with an error
FirstMessage ==
    /\ pcMain = "got"
    /\ IsFirstMessage
    /\ stations' = get_stations_from_api_message(Unwrap(message))
    /\ LET url == ListenUrlValue(selected_station, Unwrap(message))
       IN  IF IsSome(url)
           THEN /\ listen_url_value' = url
                /\ pcMain' = "play_lock"
                /\ UNCHANGED error
           ELSE /\ error' = "station_not_found"
                /\ pcMain' = "returned"
                /\ UNCHANGED listen_url_value
    /\ UNCHANGED << first_receive, args, selected_station, connectTask, ws, PLAYER, PROGRESS_BAR, locks,
                    listen_url, last_song_id, message, retry_count,
                    progress_bar_preffix, exitStatus, pcTick, pcKbd, key, screen,
                    received, delivered, attemptLog, lastVia, calls >>

\* line 96 on a later message: the block is skipped
LaterMessage ==
    /\ pcMain = "got"
    /\ ~IsFirstMessage
    /\ pcMain' = "update"
    /\ UNCHANGED << first_receive, stations, args, selected_station, connectTask, ws, PLAYER, PROGRESS_BAR, locks,
                    listen_url, listen_url_value, last_song_id, message, retry_count,
                    progress_bar_preffix, error, exitStatus, pcTick, pcKbd, key, screen,
                    received, delivered, attemptLog, lastVia, calls >>

\* line 134: PLAYER.lock()
PlayLock ==
    /\ pcMain = "play_lock"
    /\ locks["PLAYER"] = Free
    /\ locks' = Lock("PLAYER", "main")
    /\ pcMain' = "play_held"
    /\ UNCHANGED << first_receive, stations, args, selected_station, connectTask, ws, PLAYER, PROGRESS_BAR,
                    listen_url, listen_url_value, last_song_id, message, retry_count,
                    progress_bar_preffix, error, exitStatus, pcTick, pcKbd, key, screen,
                    received, delivered, attemptLog, lastVia, calls >>

\* lines 134-136: play the url when a player exists; the guard is dropped
Play ==
    /\ pcMain = "play_held"
    /\ IF IsSome(PLAYER)
       THEN /\ PLAYER' = Some(Player_play(Unwrap(PLAYER), Unwrap(listen_url_value)))
            /\ calls' = Bump("play")
       ELSE UNCHANGED << PLAYER, calls >>
    /\ locks' = Unlock("PLAYER")
    /\ pcMain' = "spawn_kbd"
    /\ UNCHANGED << first_receive, stations, args, selected_station, connectTask, ws, PROGRESS_BAR,
                    listen_url, listen_url_value, last_song_id, message, retry_count,
                    progress_bar_preffix, error, exitStatus, pcTick, pcKbd, key, screen,
                    received, delivered, attemptLog, lastVia >>

\* lines 138-140: listen_url is set and the keyboard thread started
SpawnKeyboard ==
    /\ pcMain = "spawn_kbd"
    /\ listen_url' = listen_url_value
    /\ listen_url_value' = None
    /\ stations' = << >>
    /\ pcKbd' = "read"
    /\ calls' = Bump("kbd")
    /\ pcMain' = "update"
    /\ UNCHANGED << first_receive, args, selected_station, connectTask, ws, PLAYER, PROGRESS_BAR, locks,
                    last_song_id, message, retry_count,
                    progress_bar_preffix, error, exitStatus, pcTick, key, screen,
                    received, delivered, attemptLog, lastVia >>

\* lines 143 and 235: update_song_info_on_screen is called; PLAYER.lock()
UpdateLockPlayer ==
    /\ pcMain = "update"
    /\ locks["PLAYER"] = Free
    /\ locks' = Lock("PLAYER", "main")
    /\ delivered' = Append(delivered, Unwrap(message))
    /\ pcMain' = "update_player_held"
    /\ UNCHANGED << first_receive, stations, args, selected_station, connectTask, ws, PLAYER, PROGRESS_BAR,
                    listen_url, listen_url_value, last_song_id, message, retry_count,
                    progress_bar_preffix, error, exitStatus, pcTick, pcKbd, key, screen,
                    received, attemptLog, lastVia, calls >>

\* a volume read whose PLAYER guard is bound to a variable and so kept to the
\* end of the function
UpdateReadVolumeKeepsGuard ==
    /\ pcMain = "update_player_held"
    /\ progress_bar_preffix' =
         get_progress_bar_prefix(IF IsSome(PLAYER) THEN Some(Player_volume(Unwrap(PLAYER)))
                                 ELSE None)
    /\ pcMain' = "update_bar_lock"
    /\ UNCHANGED << first_receive, stations, args, selected_station, connectTask, ws, PLAYER, PROGRESS_BAR, locks,
                    listen_url, listen_url_value, last_song_id, message, retry_count,
                    error, exitStatus, pcTick, pcKbd, key, screen,
                    received, delivered, attemptLog, lastVia, calls >>

\* lines 234-235: the prefix is made from the player's volume; the guard, a
\* temporary of the let statement, is dropped at its end
UpdateReadVolume ==
    /\ pcMain = "update_player_held"
    /\ progress_bar_preffix' =
         get_progress_bar_prefix(IF IsSome(PLAYER) THEN Some(Player_volume(Unwrap(PLAYER)))
                                 ELSE None)
    /\ locks' = Unlock("PLAYER")
    /\ pcMain' = "update_bar_lock"
    /\ UNCHANGED << first_receive, stations, args, selected_station, connectTask, ws, PLAYER, PROGRESS_BAR,
                    listen_url, listen_url_value, last_song_id, message, retry_count,
                    error, exitStatus, pcTick, pcKbd, key, screen,
                    received, delivered, attemptLog, lastVia, calls >>

\* line 238: PROGRESS_BAR.lock()
UpdateLockBar ==
    /\ pcMain = "update_bar_lock"
    /\ locks["PROGRESS_BAR"] = Free
    /\ locks' = Lock("PROGRESS_BAR", "main")
    /\ pcMain' = "update_bar_held"
    /\ UNCHANGED << first_receive, stations, args, selected_station, connectTask, ws, PLAYER, PROGRESS_BAR,
                    listen_url, listen_url_value, last_song_id, message, retry_count,
                    progress_bar_preffix, error, exitStatus, pcTick, pcKbd, key, screen,
                    received, delivered, attemptLog, lastVia, calls >>

\* an update whose PROGRESS_BAR guard outlives the call
UpdateApplyKeepsGuard ==
    /\ pcMain = "update_bar_held"
    /\ LET m == Unwrap(message)
           song == m.now_playing.song
           elapsed_seconds == m.now_playing.elapsed
           total_seconds == m.now_playing.duration
           progress_bar_suffix == get_progress_bar_suffix(m.listeners.current)
       IN  IF SongChanged(song.id, last_song_id)
           THEN /\ last_song_id' = song.id
                /\ screen' = Some([title |-> song.title, artist |-> song.artist,
                                   album |-> song.album])
                /\ PROGRESS_BAR' = Some([len |-> ProgressBarLen(total_seconds),
                                         pos |-> AsU64(elapsed_seconds),
                                         prefix |-> progress_bar_preffix,
                                         msg |-> progress_bar_suffix])
                /\ calls' = [calls EXCEPT !.new_song = @ + 1, !.attempts = 0, !.handshakes = 0, !.backoffs = 0]
           ELSE /\ IF IsSome(PROGRESS_BAR)
                   THEN PROGRESS_BAR' = Some([Unwrap(PROGRESS_BAR) EXCEPT
                                                !.pos = AsU64(elapsed_seconds),
                                                !.msg = progress_bar_suffix])
                   ELSE UNCHANGED PROGRESS_BAR
                /\ calls' = [calls EXCEPT !.attempts = 0, !.handshakes = 0, !.backoffs = 0]
                /\ UNCHANGED << last_song_id, screen >>
    /\ UNCHANGED locks
    /\ message' = None
    /\ progress_bar_preffix' = ""
    /\ retry_count' = 0
    /\ attemptLog' = << >>
    /\ lastVia' = "none"
    /\ pcMain' = "recv"
    /\ UNCHANGED << first_receive, stations, args, selected_station, connectTask, ws, PLAYER,
                    listen_url, listen_url_value,
                    error, exitStatus, pcTick, pcKbd, key,
                    received, delivered >>

\* lines 239-282: a new song is written to the screen with a fresh bar; the
\* same song moves the existing bar; the guard is dropped at the end
UpdateApply ==
    /\ pcMain = "update_bar_held"
    /\ LET m == Unwrap(message)
           song == m.now_playing.song
           elapsed_seconds == m.now_playing.elapsed
           total_seconds == m.now_playing.duration
           progress_bar_suffix == get_progress_bar_suffix(m.listeners.current)
       IN  IF SongChanged(song.id, last_song_id)
           THEN /\ last_song_id' = song.id
                /\ screen' = Some([title |-> song.title, artist |-> song.artist,
                                   album |-> song.album])
                /\ PROGRESS_BAR' = Some([len |-> ProgressBarLen(total_seconds),
                                         pos |-> AsU64(elapsed_seconds),
                                         prefix |-> progress_bar_preffix,
                                         msg |-> progress_bar_suffix])
                /\ calls' = [calls EXCEPT !.new_song = @ + 1, !.attempts = 0, !.handshakes = 0, !.backoffs = 0]
           ELSE /\ IF IsSome(PROGRESS_BAR)
                   THEN PROGRESS_BAR' = Some([Unwrap(PROGRESS_BAR) EXCEPT
                                                !.pos = AsU64(elapsed_seconds),
                                                !.msg = progress_bar_suffix])
                   ELSE UNCHANGED PROGRESS_BAR
                /\ calls' = [calls EXCEPT !.attempts = 0, !.handshakes = 0, !.backoffs = 0]
                /\ UNCHANGED << last_song_id, screen >>
    /\ locks' = Unlock("PROGRESS_BAR")
    /\ message' = None
    /\ progress_bar_preffix' = ""
    /\ retry_count' = 0
    /\ attemptLog' = << >>
    /\ lastVia' = "none"
    /\ pcMain' = "recv"
    /\ UNCHANGED << first_receive, stations, args, selected_station, connectTask, ws, PLAYER,
                    listen_url, listen_url_value,
                    error, exitStatus, pcTick, pcKbd, key,
                    received, delivered >>

\* main, lines 36-40: start() has returned Err; it is shown and main returns,
\* which ends the process with the exit status of a normal return
MainReturn ==
    /\ pcMain = "returned"
    /\ exitStatus' = Some(0)
    /\ pcMain' = "exit"
    /\ UNCHANGED << first_receive, stations, args, selected_station, connectTask, ws, PLAYER, PROGRESS_BAR, locks,
                    listen_url, listen_url_value, last_song_id, message, retry_count,
                    progress_bar_preffix, error, pcTick, pcKbd, key, screen,
                    received, delivered, attemptLog, lastVia, calls >>

----------------------------------------------------------------------------
(* The tick task, lines 312-320 *)

\* lines 315-316: a second has passed; PROGRESS_BAR.lock()
TickLock ==
    /\ Alive
    /\ pcTick = "wait"
    /\ locks["PROGRESS_BAR"] = Free
    /\ IsSome(PROGRESS_BAR) => U64Less(Unwrap(PROGRESS_BAR).pos, U64(MaxPos))
    /\ locks' = Lock("PROGRESS_BAR", "tick")
    /\ pcTick' = "held"
    /\ UNCHANGED << mainVars, histVars, PLAYER, PROGRESS_BAR, pcKbd, key, screen, calls >>

\* lines 316-318: inc(1) when a bar exists; the guard is dropped
TickInc ==
    /\ Alive
    /\ pcTick = "held"
    /\ IF IsSome(PROGRESS_BAR)
       THEN PROGRESS_BAR' = Some([Unwrap(PROGRESS_BAR) EXCEPT !.pos = U64Inc(@)])
       ELSE UNCHANGED PROGRESS_BAR
    /\ locks' = Unlock("PROGRESS_BAR")
    /\ pcTick' = "wait"
    /\ UNCHANGED << mainVars, histVars, PLAYER, pcKbd, key, screen, calls >>

----------------------------------------------------------------------------
(* The keyboard thread, lines 322-337 *)

\* line 324: a character is read; anything but a digit is dropped
KbdRead ==
    /\ Alive
    /\ pcKbd = "read"
    /\ calls.keys < MaxKeys
    /\ \E r \in {None} \cup { Some(c) : c \in KeyChars } :
         IF IsSome(read_digit(r))
         THEN /\ key' = read_digit(r)
              /\ calls' = Bump("keys")
              /\ pcKbd' = "player_lock"
         ELSE UNCHANGED << key, calls, pcKbd >>
    /\ UNCHANGED << mainVars, histVars, PLAYER, PROGRESS_BAR, locks, pcTick, screen >>

\* line 325: PLAYER.lock()
KbdLockPlayer ==
    /\ Alive
    /\ pcKbd = "player_lock"
    /\ locks["PLAYER"] = Free
    /\ locks' = Lock("PLAYER", "kbd")
    /\ pcKbd' = "player_held"
    /\ UNCHANGED << mainVars, histVars, PLAYER, PROGRESS_BAR, pcTick, key, screen, calls >>

\* a keyboard step that sets the volume whenever a player exists, equal or not
KbdSetVolumeAlways ==
    /\ Alive
    /\ pcKbd = "player_held"
    /\ LET volume == Unwrap(key)
       IN  IF IsSome(PLAYER)
           THEN /\ PLAYER' = Some(Player_set_volume(Unwrap(PLAYER), volume))
                /\ calls' = Bump("set_volume")
                /\ pcKbd' = "bar_lock"
                /\ UNCHANGED << locks, key >>
           ELSE /\ locks' = Unlock("PLAYER")
                /\ key' = None
                /\ pcKbd' = "read"
                /\ UNCHANGED << PLAYER, calls >>
    /\ UNCHANGED << mainVars, histVars, PROGRESS_BAR, pcTick, screen >>

\* lines 325-330: no player, or the level is the current one: the guard is
\* dropped and the loop goes on; otherwise the volume is set, the guard kept
KbdSetVolume ==
    /\ Alive
    /\ pcKbd = "player_held"
    /\ LET volume == Unwrap(key)
       IN  IF IsSome(PLAYER) /\ Player_volume(Unwrap(PLAYER)) # volume
           THEN /\ PLAYER' = Some(Player_set_volume(Unwrap(PLAYER), volume))
                /\ calls' = Bump("set_volume")
                /\ pcKbd' = "bar_lock"
                /\ UNCHANGED << locks, key >>
           ELSE /\ locks' = Unlock("PLAYER")
                /\ key' = None
                /\ pcKbd' = "read"
                /\ UNCHANGED << PLAYER, calls >>
    /\ UNCHANGED << mainVars, histVars, PROGRESS_BAR, pcTick, screen >>

\* line 331: PROGRESS_BAR.lock(), inside the if let that holds the PLAYER guard
KbdLockBar ==
    /\ Alive
    /\ pcKbd = "bar_lock"
    /\ locks["PROGRESS_BAR"] = Free
    /\ locks' = Lock("PROGRESS_BAR", "kbd")
    /\ pcKbd' = "bar_held"
    /\ UNCHANGED << mainVars, histVars, PLAYER, PROGRESS_BAR, pcTick, key, screen, calls >>

\* lines 331-333: the prefix of an existing bar is set; the PROGRESS_BAR guard
\* is dropped at the end of the inner if let
KbdSetPrefix ==
    /\ Alive
    /\ pcKbd = "bar_held"
    /\ IF IsSome(PROGRESS_BAR)
       THEN PROGRESS_BAR' = Some([Unwrap(PROGRESS_BAR) EXCEPT
                                    !.prefix = get_progress_bar_prefix(key)])
       ELSE UNCHANGED PROGRESS_BAR
    /\ locks' = Unlock("PROGRESS_BAR")
    /\ pcKbd' = "player_unlock"
    /\ UNCHANGED << mainVars, histVars, PLAYER, pcTick, key, screen, calls >>

\* line 334: the PLAYER guard is dropped at the end of the outer if let
KbdUnlockPlayer ==
    /\ Alive
    /\ pcKbd = "player_unlock"
    /\ locks' = Unlock("PLAYER")
    /\ key' = None
    /\ pcKbd' = "read"
    /\ UNCHANGED << mainVars, histVars, PLAYER, PROGRESS_BAR, pcTick, screen, calls >>

----------------------------------------------------------------------------
Next ==
    \/ Start \/ SelectStation \/ SpawnConnect \/ ConnectTaskDone \/ PlayerTryNew
    \/ AwaitConnect \/ Recv \/ RcClose \/ RcConnect \/ RcNext \/ Backoff
    \/ FirstMessage \/ LaterMessage \/ PlayLock \/ Play \/ SpawnKeyboard
    \/ UpdateLockPlayer \/ UpdateReadVolume \/ UpdateLockBar \/ UpdateApply
    \/ MainReturn
    \/ TickLock \/ TickInc
    \/ KbdRead \/ KbdLockPlayer \/ KbdSetVolume \/ KbdLockBar \/ KbdSetPrefix
    \/ KbdUnlockPlayer

Spec == Init /\ [][Next]_vars

----------------------------------------------------------------------------
(* The metadata channel's state, read off the main task *)

Reconnecting == pcMain \in {"rc_close", "rc_connect", "rc_next", "backoff"}
ChannelFailed == error = "channel"
Connected == ws.open /\ ~Reconnecting /\ ~ChannelFailed

\* the main task is in the loop body with the message get_next_websocket_message returned
InLoopBody ==
    pcMain \in {"got", "play_lock", "play_held", "spawn_kbd", "update",
                "update_player_held", "update_bar_lock", "update_bar_held"}

Terminated == pcMain \in {"returned", "exit"}

----------------------------------------------------------------------------
(* C1: after a failed receive, when reconnect attempts 1 and 2 fail a third *)
(* attempt is still made and no error is surfaced; when that attempt        *)
(* succeeds, get_next_websocket_message returns the message read from the   *)
(* connection the third attempt opened, the channel is connected again, the *)
(* loop body runs with that message, and at the loop head the channel is    *)
(* connected and ready for the next receive.                                *)
C1_ThirdAttemptRecovers ==
    /\ attemptLog = << "fail", "fail" >> =>
         /\ Reconnecting
         /\ retry_count = 1
         /\ ~ChannelFailed
    /\ attemptLog = << "fail", "fail", "ok" >> =>
         /\ ~ChannelFailed
         /\ Connected
         /\ ws.openedBy = 3
         /\ calls.attempts = 3
         /\ lastVia = "reconnect"
         /\ IsSome(message)
         /\ received # << >>
         /\ Unwrap(message) = received[Len(received)]
         /\ InLoopBody \/ (Terminated /\ error = "station_not_found")
    /\ pcMain = "recv" => (Connected /\ error = "" /\ attemptLog = << >>)

\* a further message was received directly on the connection attempt 3 opened
C1_Witness ==
    /\ ws.openedBy = 3
    /\ lastVia = "receive"
    /\ Len(received) >= 2
    /\ pcMain = "got"

----------------------------------------------------------------------------
(* C2: when reconnect attempts 1, 2 and 3 all fail the channel fails once:  *)
(* exactly three attempts were made, the error is returned and ends         *)
(* start_playing's loop, and from then on no reconnect attempt is made and  *)
(* no update is received or delivered.                                      *)
C2_FailedState ==
    /\ calls.failed <= 1
    /\ ChannelFailed <=> (attemptLog = << "fail", "fail", "fail" >>)
    /\ ChannelFailed =>
         /\ calls.failed = 1
         /\ calls.attempts = 3
         /\ retry_count = 0
         /\ Terminated

C2_FailsOnceAfterThreeAttempts ==
    [][ /\ C2_FailedState'
        /\ ChannelFailed =>
             /\ ChannelFailed'
             /\ UNCHANGED << ws, attemptLog, received, delivered, message, retry_count,
                             screen, last_song_id >>
             /\ calls'.attempts = calls.attempts
             /\ calls'.failed = calls.failed
             /\ calls'.new_song = calls.new_song ]_vars

\* the process has ended on the channel's failure after messages were delivered
C2_Witness ==
    /\ ChannelFailed
    /\ pcMain = "exit"
    /\ delivered # << >>

----------------------------------------------------------------------------
(* C3: when the metadata channel has exhausted its retries, or the startup  *)
(* volume is above 9, or the selected station is absent from the station    *)
(* list, the error reaches main and the process ends with a non-zero exit   *)
(* status.                                                                  *)
C3_FatalErrorExitsNonZero ==
    /\ error \in {"channel", "volume", "station_not_found"} => Terminated
    /\ (pcMain = "exit" /\ error \in {"channel", "volume", "station_not_found"}) =>
         (IsSome(exitStatus) /\ Unwrap(exitStatus) # 0)

----------------------------------------------------------------------------
IsPrefix(s, t) == Len(s) <= Len(t) /\ SubSeq(t, 1, Len(s)) = s

(* C4, as stated: the updates handed to update_song_info_on_screen are      *)
(* exactly the messages received and parsed, in arrival order: whenever the *)
(* main task holds no message (at the loop head, or after the loop has      *)
(* ended) the two sequences are equal.                                      *)
C4_DeliveredIsReceived ==
    (pcMain = "recv" \/ Terminated) => delivered = received

(* C4, amended: the updates handed over are a prefix of the messages        *)
(* received, in arrival order and at most one behind; the two sequences are *)
(* equal whenever the main task holds no message, except that a first       *)
(* message whose station list lacks the selected station ends start_playing *)
(* before it is handed over.                                                *)
C4_DeliveredInOrder ==
    /\ IsPrefix(delivered, received)
    /\ Len(received) - Len(delivered) <= 1
    /\ Len(received) > Len(delivered) => IsSome(message) /\ Unwrap(message) = received[Len(received)]
    /\ ((pcMain = "recv" \/ Terminated) /\ error # "station_not_found") => delivered = received
    /\ error = "station_not_found" => (delivered = << >> /\ Len(received) = 1)

\* two different messages, the second one from a reconnect, were handed over in order
C4_Witness ==
    /\ Len(delivered) = 2
    /\ delivered[1] # delivered[2]
    /\ delivered = received
    /\ pcMain = "update_player_held"
    /\ lastVia = "reconnect"

----------------------------------------------------------------------------
(* C5: Player.play is invoked only while the first received message is      *)
(* being processed and at most once; the keyboard thread is started only at *)
(* that point and at most once, and it has been started exactly once in     *)
(* every state in which the first message has been handed to the display.   *)
C5_StartedOnceOnFirstMessage ==
    [][ /\ calls'.play # calls.play =>
             /\ calls.play = 0 /\ calls'.play = 1
             /\ Len(received) = 1 /\ delivered = << >>
             /\ pcMain = "play_held" /\ IsSome(message)
        /\ calls'.kbd # calls.kbd =>
             /\ calls.kbd = 0 /\ calls'.kbd = 1
             /\ Len(received) = 1 /\ delivered = << >>
             /\ pcMain = "spawn_kbd" /\ pcKbd = "none" /\ pcKbd' = "read"
        /\ (pcKbd' # "none") <=> (calls'.kbd = 1)
        /\ delivered' # << >> => calls'.kbd = 1
        /\ calls'.play = 1 => calls'.kbd = 1 \/ pcMain' = "spawn_kbd" ]_vars

\* a second message is in the loop body after play and the thread start
C5_Witness ==
    /\ calls.play = 1
    /\ calls.kbd = 1
    /\ Len(received) = 2
    /\ pcMain = "update"

----------------------------------------------------------------------------
(* C6: when Player::try_new has failed the program goes on: the process     *)
(* ends only for another reason, PLAYER stays None, play and set_volume are *)
(* never invoked, and the updates received are displayed with '*' as the    *)
(* volume.                                                                  *)
C6_NoDeviceNoPlayback ==
    calls.try_new_failed >= 1 =>
        /\ PLAYER = None
        /\ calls.play = 0
        /\ calls.set_volume = 0
        /\ Terminated => error \in {"connect", "channel", "station_not_found"}
        /\ IsSome(PROGRESS_BAR) => Unwrap(PROGRESS_BAR).prefix = "Volume */9"
        /\ pcMain = "recv" => delivered = received

\* without a player two updates were displayed and a digit was typed
C6_Witness ==
    /\ calls.try_new_failed = 1
    /\ Len(delivered) = 2
    /\ pcMain = "recv"
    /\ IsSome(PROGRESS_BAR)
    /\ Unwrap(PROGRESS_BAR).prefix = "Volume */9"
    /\ calls.keys >= 1

----------------------------------------------------------------------------
(* C7: every update passed to update_song_info_on_screen, the first one of  *)
(* the process included, is treated as a new song (header written, fresh    *)
(* progress bar, remembered song id replaced) if and only if its song id    *)
(* differs from the song id of the update before it, the first update       *)
(* having none before it; an update with the same song id only sets the     *)
(* bar's position and listener text and leaves header and remembered id.    *)
C7_NewSongIffIdDiffers ==
    [][ (pcMain = "update_bar_held" /\ pcMain' = "recv") =>
          LET m == Unwrap(message)
              song == m.now_playing.song
              n == Len(delivered)
              differs == n < 2 \/ delivered[n - 1].now_playing.song.id # song.id
              bar == Unwrap(PROGRESS_BAR')
          IN  IF differs
              THEN /\ calls'.new_song = calls.new_song + 1
                   /\ screen' = Some([title |-> song.title, artist |-> song.artist,
                                      album |-> song.album])
                   /\ last_song_id' = song.id
                   /\ IsSome(PROGRESS_BAR')
                   /\ bar.pos = U64(m.now_playing.elapsed)
                   /\ bar.msg = get_progress_bar_suffix(m.listeners.current)
                   /\ bar.prefix = progress_bar_preffix
              ELSE /\ calls'.new_song = calls.new_song
                   /\ UNCHANGED << screen, last_song_id >>
                   /\ IsSome(PROGRESS_BAR) /\ IsSome(PROGRESS_BAR')
                   /\ bar = [Unwrap(PROGRESS_BAR) EXCEPT
                               !.pos = U64(m.now_playing.elapsed),
                               !.msg = get_progress_bar_suffix(m.listeners.current)] ]_vars

----------------------------------------------------------------------------
Units == {"main", "tick", "kbd"}

(* C8, as stated: in every reachable state each of the main task, the tick  *)
(* task and the keyboard thread holds at most one of the PLAYER and         *)
(* PROGRESS_BAR locks.                                                      *)
C8_AtMostOneLockEach ==
    \A u \in Units : Cardinality(Holds(u)) <= 1

(* C8, amended: the main task and the tick task hold at most one of the two *)
(* locks at a time, and the tick task only ever the PROGRESS_BAR lock; the  *)
(* keyboard thread holds the PROGRESS_BAR lock only while it also holds the *)
(* PLAYER lock, which it took first (lines 325-334).                        *)
C8_OnlyKeyboardNestsLocks ==
    /\ Cardinality(Holds("main")) <= 1
    /\ Holds("tick") \subseteq {"PROGRESS_BAR"}
    /\ Holds("kbd") \in { {}, {"PLAYER"}, {"PLAYER", "PROGRESS_BAR"} }
    /\ Holds("kbd") = {"PLAYER", "PROGRESS_BAR"} <=> pcKbd = "bar_held"
    /\ Holds("main") = {"PLAYER"} <=> pcMain \in {"play_held", "update_player_held"}
    /\ Holds("main") = {"PROGRESS_BAR"} <=> pcMain = "update_bar_held"

\* the keyboard thread holds both locks while the main task waits for one
C8_Witness ==
    /\ Holds("kbd") = {"PLAYER", "PROGRESS_BAR"}
    /\ pcMain = "update"

----------------------------------------------------------------------------
(* C9: a player that exists has a volume level in 0..9; a startup volume    *)
(* above 9 ends start with an error before Player::try_new runs and before  *)
(* the websocket handshake is started; every level the keyboard thread      *)
(* passes to set_volume is in 0..9.                                         *)
C9_VolumeInRange ==
    /\ IsSome(PLAYER) => Player_volume(Unwrap(PLAYER)) \in 0..9
    /\ args.volume > 9 =>
         /\ pcMain = "start" \/ (Terminated /\ error = "volume")
         /\ PLAYER = None
         /\ connectTask = "none"
         /\ calls.set_volume = 0 /\ calls.try_new_failed = 0
    /\ error = "volume" => args.volume > 9
    /\ IsSome(key) => Unwrap(key) \in 0..9

\* the keyboard thread has changed the volume of a player started at level 9
C9_Witness ==
    /\ args.volume = 9
    /\ IsSome(PLAYER)
    /\ Player_volume(Unwrap(PLAYER)) = 0
    /\ calls.set_volume = 2

----------------------------------------------------------------------------
\* the url of the first entry of the message's station list with the given id
UrlOfStation(m, id, url) ==
    LET station_list == get_stations_from_api_message(m)
    IN  \E i \in 1..Len(station_list) :
          /\ station_list[i].id = id
          /\ \A j \in 1..(i - 1) : station_list[j].id # id
          /\ station_list[i].url = url

HasStation(m, id) ==
    \E i \in 1..Len(m.station.remotes) \cup (Len(m.station.remotes) + 1)..
             (Len(m.station.remotes) + Len(m.station.mounts)) :
       IF i <= Len(m.station.remotes) THEN m.station.remotes[i].id = id
       ELSE m.station.mounts[i - Len(m.station.remotes)].id = id

\* the url the first message gives for the selection made
ExpectedUrl(url) ==
    IF IsSome(selected_station)
    THEN UrlOfStation(received[1], Unwrap(selected_station).id, url)
    ELSE url = received[1].station.listen_url

(* C10: the url passed to play comes from the first message: its            *)
(* station.listen_url when no station was selected, otherwise the url of    *)
(* the entry of its station list whose id is the selected id; when the list *)
(* has no such entry start_playing returns the station-not-found error and  *)
(* play is never invoked nor the keyboard thread started.                   *)
C10_UrlFromFirstMessage ==
    /\ (IsSome(PLAYER) /\ IsSome(Unwrap(PLAYER).url)) =>
         (received # << >> /\ ExpectedUrl(Unwrap(Unwrap(PLAYER).url)))
    /\ IsSome(listen_url) => (received # << >> /\ ExpectedUrl(Unwrap(listen_url)))
    /\ calls.play >= 1 => IsSome(Unwrap(PLAYER).url)
    /\ error = "station_not_found" =>
         /\ IsSome(selected_station)
         /\ Len(received) = 1
         /\ ~HasStation(received[1], Unwrap(selected_station).id)
         /\ calls.play = 0 /\ calls.kbd = 0 /\ pcKbd = "none"
         /\ Terminated
    /\ (IsSome(selected_station) /\ received # << >>
           /\ ~HasStation(received[1], Unwrap(selected_station).id)) =>
         /\ pcMain = "got" \/ error = "station_not_found"
         /\ calls.play = 0 /\ calls.kbd = 0

\* the selected station's url, not the message's listen_url, is being played
C10_Witness ==
    /\ IsSome(selected_station)
    /\ Unwrap(selected_station).id = 3
    /\ IsSome(PLAYER)
    /\ Unwrap(PLAYER).url = Some("u3")
    /\ received[1].station.listen_url = "u0"

----------------------------------------------------------------------------
(* The station list of a message, over all small station arrays *)

MaxStations == 2

\* entries of the remotes and mounts arrays: two ids, two names for each array
RemotePool == { [id |-> i, name |-> n, url |-> n] : i \in 1..2, n \in {"a", "b"} }
MountPool == { [id |-> i, name |-> n, url |-> n, bitrate |-> 64] :
                 i \in 1..2, n \in {"c", "d"} }

SeqsUpTo(S, n) == UNION { [1..k -> S] : k \in 0..n }

\* first messages whose station arrays range over all sequences of pool entries
StationMessages ==
    { [ station |-> [listen_url |-> "u0", remotes |-> r, mounts |-> mo],
        now_playing |-> Messages[1].now_playing,
        listeners |-> Messages[1].listeners ] :
      r \in SeqsUpTo(RemotePool, MaxStations), mo \in SeqsUpTo(MountPool, MaxStations) }

\* start_playing at line 96 with the first message in hand, lines 54-95 done
\* with no station selected and a player
InitStations ==
    /\ pcMain = "got"
    /\ args = [volume |-> 9, select_station |-> FALSE]
    /\ selected_station = None
    /\ connectTask = "ok"
    /\ ws = [open |-> TRUE, openedBy |-> 0]
    /\ PLAYER = Some(Player_set_volume(Player_try_new, args.volume))
    /\ PROGRESS_BAR = None
    /\ locks = [PLAYER |-> Free, PROGRESS_BAR |-> Free]
    /\ listen_url = None
    /\ first_receive = ""
    /\ stations = << >>
    /\ listen_url_value = None
    /\ last_song_id = ""
    /\ message \in { Some(m) : m \in StationMessages }
    /\ retry_count = 0
    /\ progress_bar_preffix = ""
    /\ error = ""
    /\ exitStatus = None
    /\ pcTick = "wait"
    /\ pcKbd = "none"
    /\ key = None
    /\ screen = None
    /\ received = << Unwrap(message) >>
    /\ delivered = << >>
    /\ attemptLog = << >>
    /\ lastVia = "receive"
    /\ calls = [play |-> 0, set_volume |-> 1, kbd |-> 0, tick |-> 1, try_new_failed |-> 0,
                failed |-> 0, new_song |-> 0, keys |-> 0, attempts |-> 0,
                handshakes |-> 0, backoffs |-> 0]

\* lines 96-110 applied to each such message
SpecStations == InitStations /\ [][FirstMessage]_vars

\* the entries line 373-378 push: the remotes, then the mounts as Remote values
PushedEntries(m) ==
    m.station.remotes \o
      [ i \in 1..Len(m.station.mounts) |-> MountToRemote(m.station.mounts[i]) ]

\* the place of entry j in an ascending order by id that keeps entries of equal
\* id in their order in p
StableRank(p, j) ==
    Cardinality({ i \in 1..Len(p) : p[i].id < p[j].id \/ (p[i].id = p[j].id /\ i <= j) })

\* the first-message block holds the station list of the message in hand
StationsComputed == pcMain \in {"play_lock", "play_held", "spawn_kbd"}

(* C11: the station list of a message has one entry for each entry of its   *)
(* remotes and of its mounts (its length is the sum of theirs), is          *)
(* ascending by id, and entries of equal id keep the order remotes before   *)
(* mounts and, within each array, their order in the array.                 *)
C11_StationsMergedSortedStable ==
    StationsComputed =>
      LET m == Unwrap(message)
          p == PushedEntries(m)
      IN  /\ Len(stations) = Len(m.station.remotes) + Len(m.station.mounts)
          /\ \A j \in 1..Len(p) : stations[StableRank(p, j)] = p[j]
          /\ \A k \in 1..(Len(stations) - 1) : stations[k].id <= stations[k + 1].id

\* unsorted remotes and a mount whose id a remote has: the mount follows it
C11_Witness ==
    /\ StationsComputed
    /\ Unwrap(message).station.remotes = << [id |-> 2, name |-> "a", url |-> "a"],
                                            [id |-> 1, name |-> "b", url |-> "b"] >>
    /\ Unwrap(message).station.mounts = << [id |-> 1, name |-> "c", url |-> "c", bitrate |-> 64] >>
    /\ stations = << [id |-> 1, name |-> "b", url |-> "b"],
                     [id |-> 1, name |-> "c", url |-> "c"],
                     [id |-> 2, name |-> "a", url |-> "a"] >>

----------------------------------------------------------------------------
\* a step of update_song_info_on_screen that puts a fresh bar on the screen
NewBarStep == calls'.new_song = calls.new_song + 1

(* C12: a song reported with total duration 0 gets a bar of the 'unknown'   *)
(* length whose progress text is the elapsed time alone; a song reported    *)
(* with a positive total gets a bar of that length whose text is            *)
(* 'elapsed / total'; no bar ever has length 0.                             *)
C12_ZeroTotalIsUnknown ==
    [][ /\ NewBarStep =>
            LET m == Unwrap(message)
                e == m.now_playing.elapsed
                d == m.now_playing.duration
                bar == Unwrap(PROGRESS_BAR')
                mmss(n) == TwoDigits(n \div 60) \o ":" \o TwoDigits(n % 60)
            IN  /\ d = 0 => (bar.len = U64_MAX /\ ProgressInfo(bar) = mmss(e))
                /\ d > 0 => (bar.len = U64(d) /\ bar.len # U64_MAX /\ ProgressInfo(bar) = mmss(e) \o " / " \o mmss(d))
        /\ IsSome(PROGRESS_BAR') => Unwrap(PROGRESS_BAR').len # U64(0)
      ]_vars

\* the bar of a song reported with total 0 and elapsed 1 shows "00:01"
C12_Witness ==
    /\ delivered # << >>
    /\ delivered[Len(delivered)].now_playing.duration = 0
    /\ delivered[Len(delivered)].now_playing.elapsed = 1
    /\ pcMain = "recv"
    /\ calls.new_song = 1
    /\ IsSome(PROGRESS_BAR)
    /\ Unwrap(PROGRESS_BAR).len = U64_MAX
    /\ ProgressInfo(Unwrap(PROGRESS_BAR)) = "00:01"

----------------------------------------------------------------------------
(* C13: however ticks and updates interleave, a tick moves the displayed    *)
(* elapsed counter up by exactly 1 when a bar exists and changes nothing    *)
(* when none exists, and once update_song_info_on_screen has returned the   *)
(* displayed elapsed counter is the elapsed value of the update it was      *)
(* given, whatever ticks came before.                                       *)
C13_TickAddsOneUpdateSetsElapsed ==
    [][ /\ (pcTick = "held" /\ pcTick' = "wait") =>
              IF IsSome(PROGRESS_BAR)
              THEN PROGRESS_BAR' = Some([Unwrap(PROGRESS_BAR) EXCEPT !.pos = U64Inc(@)])
              ELSE PROGRESS_BAR' = None
        /\ (pcMain = "update_bar_held" /\ pcMain' = "recv") =>
              /\ IsSome(PROGRESS_BAR')
              /\ Unwrap(PROGRESS_BAR').pos = U64(Unwrap(message).now_playing.elapsed)
      ]_vars

----------------------------------------------------------------------------
\* the failed attempts of the episode in progress
FailedAttempts == Cardinality({ i \in 1..Len(attemptLog) : attemptLog[i] = "fail" })

(* C14: within one reconnect episode every failed attempt but the third is  *)
(* followed by one backoff wait before the next attempt starts, an attempt  *)
(* after the first starts only when the wait for the failure before it is   *)
(* over, and the third failure surfaces the error with no further wait.     *)
C14_BackoffBetweenAttempts ==
    /\ pcMain = "backoff" =>
         /\ FailedAttempts \in 1..2
         /\ calls.attempts = FailedAttempts
         /\ calls.backoffs = FailedAttempts - 1
    /\ pcMain = "rc_close" =>
         /\ calls.attempts = FailedAttempts
         /\ calls.backoffs = FailedAttempts
    /\ pcMain \in {"rc_connect", "rc_next"} =>
         /\ calls.attempts = FailedAttempts + 1
         /\ calls.backoffs = calls.attempts - 1
    /\ ChannelFailed =>
         /\ FailedAttempts = 3
         /\ calls.attempts = 3
         /\ calls.backoffs = 2
    /\ (InLoopBody /\ lastVia = "reconnect") =>
         /\ calls.attempts = FailedAttempts + 1
         /\ calls.backoffs = FailedAttempts

\* the third attempt is under way after two failures and two waits
C14_Witness ==
    /\ pcMain = "rc_connect"
    /\ attemptLog = << "fail", "fail" >>
    /\ calls.attempts = 3
    /\ calls.backoffs = 2

----------------------------------------------------------------------------
ReceiveFailures == {"end", "error", "nontext", "unparsed"}

(* C15: a receive on the connected channel that yields no message, be it    *)
(* the stream's end, a transport error, a frame that is no text or a text   *)
(* that is no snapshot, starts the reconnect loop with the full budget and  *)
(* the first attempt still to come; it never returns an error to the        *)
(* caller.                                                                  *)
C15_FailedReceiveReconnects ==
    [][ /\ (pcMain = "recv" /\ pcMain' # "recv") =>
              \/ /\ pcMain' = "got"
                 /\ first_receive' = ""
                 /\ received' = Append(received, Unwrap(message'))
              \/ /\ first_receive' \in ReceiveFailures
                 /\ pcMain' = "rc_close"
                 /\ retry_count' = 3
                 /\ calls'.attempts = 0
                 /\ attemptLog' = << >>
                 /\ error' = ""
                 /\ UNCHANGED << message, received, ws >>
        /\ first_receive' # "" =>
              /\ pcMain' = "rc_close"
              /\ calls'.attempts = 0
              /\ error' = ""
      ]_vars

\* a text that is no snapshot has arrived after a message was delivered
C15_Witness ==
    /\ first_receive = "unparsed"
    /\ pcMain = "rc_close"
    /\ delivered # << >>
    /\ ws.open
    /\ retry_count = 3

----------------------------------------------------------------------------
(* C16: in every reconnect attempt the old connection is closed before the  *)
(* handshake starts; the connection is replaced only by a handshake that    *)
(* succeeds, and a handshake that fails leaves the old, closed connection   *)
(* in place for the next attempt.                                           *)
C16_CloseThenHandshake ==
    [][ /\ pcMain' = "rc_connect" => ~ws'.open
        /\ (pcMain = "rc_close" /\ pcMain' # "rc_close") =>
              /\ pcMain' = "rc_connect"
              /\ ws' = [open |-> FALSE, openedBy |-> ws.openedBy]
        /\ (pcMain = "rc_connect" /\ pcMain' # "rc_connect") =>
              \/ /\ pcMain' = "rc_next"
                 /\ ws' = [open |-> TRUE, openedBy |-> calls.attempts]
                 /\ calls'.handshakes = calls.handshakes + 1
              \/ /\ pcMain' \in {"backoff", "returned"}
                 /\ ws' = ws
                 /\ ~ws'.open
                 /\ calls'.handshakes = calls.handshakes
        /\ (Reconnecting /\ ws'.openedBy # ws.openedBy) =>
              (pcMain = "rc_connect" /\ pcMain' = "rc_next")
        /\ (pcMain = "backoff" /\ pcMain' = "rc_close") => ws' = ws
      ]_vars

\* the first handshake failed, the second replaced the closed connection
C16_Witness ==
    /\ pcMain = "rc_next"
    /\ attemptLog = << "fail" >>
    /\ calls.attempts = 2
    /\ calls.handshakes = 1
    /\ ws = [open |-> TRUE, openedBy |-> 2]

----------------------------------------------------------------------------
(* C17: a digit equal to the player's level is a no-op: set_volume is not   *)
(* called, the bar's prefix is left alone and the thread reads the next     *)
(* key; a different digit sets the level to the digit and then, still under *)
(* the player lock, sets the prefix of the bar on the screen to the text of *)
(* the same digit.                                                          *)
C17_EqualDigitIsNoOp ==
    [][ /\ (pcKbd = "player_held" /\ pcKbd' # "player_held" /\ IsSome(PLAYER)) =>
              IF Unwrap(PLAYER).volume = Unwrap(key)
              THEN /\ pcKbd' = "read"
                   /\ UNCHANGED << PLAYER, PROGRESS_BAR >>
                   /\ calls'.set_volume = calls.set_volume
              ELSE /\ pcKbd' = "bar_lock"
                   /\ Unwrap(PLAYER').volume = Unwrap(key)
                   /\ calls'.set_volume = calls.set_volume + 1
                   /\ UNCHANGED << PROGRESS_BAR, key >>
        /\ (pcKbd = "bar_lock" /\ pcKbd' # "bar_lock") =>
              (pcKbd' = "bar_held" /\ UNCHANGED << PLAYER, PROGRESS_BAR, key >>)
        /\ (pcKbd = "bar_held" /\ pcKbd' # "bar_held") =>
              /\ UNCHANGED PLAYER
              /\ Unwrap(PLAYER).volume = Unwrap(key)
              /\ IF IsSome(PROGRESS_BAR)
                 THEN PROGRESS_BAR' =
                        Some([Unwrap(PROGRESS_BAR) EXCEPT
                                !.prefix = "Volume " \o DigitChars[Unwrap(key) + 1] \o "/9"])
                 ELSE PROGRESS_BAR' = None
      ]_vars

\* the level went from 9 to 0 and the bar on the screen says so
C17_Witness ==
    /\ pcKbd = "player_unlock"
    /\ args.volume = 9
    /\ key = Some(0)
    /\ Unwrap(PLAYER).volume = 0
    /\ IsSome(PROGRESS_BAR)
    /\ Unwrap(PROGRESS_BAR).prefix = "Volume 0/9"

----------------------------------------------------------------------------
(* C18: the retry budget belongs to the call, not to the process: every     *)
(* call of get_next_websocket_message whose first receive fails starts with *)
(* 3 attempts, whatever attempts earlier calls have used, and gives up only *)
(* when 3 attempts of its own have failed.                                  *)
C18_BudgetPerEpisode ==
    /\ first_receive # "" =>
         (retry_count = 3 /\ calls.attempts = 0 /\ FailedAttempts = 0)
    /\ Reconnecting =>
         /\ retry_count = 3 - FailedAttempts
         /\ retry_count >= 1
         /\ calls.attempts <= 3
    /\ ChannelFailed => (FailedAttempts = 3 /\ calls.attempts = 3)

\* the third attempt of an episode, on a connection that the third attempt of
\* an earlier episode had opened: six attempts so far
C18_Witness ==
    /\ pcMain = "rc_connect"
    /\ calls.attempts = 3
    /\ calls.handshakes = 0
    /\ retry_count = 1
    /\ ws.openedBy = 3
    /\ received # << >>

----------------------------------------------------------------------------
(* C19: a reconnect attempt yields a message only when its handshake has    *)
(* succeeded and the first frame of the new connection parses; an attempt   *)
(* whose handshake succeeds but whose first frame yields no message is a    *)
(* failed attempt like any other, and three of them end in the channel's    *)
(* failure although each opened a connection.                               *)
C19_SuccessNeedsFirstFrame ==
    [][ /\ (pcMain = "rc_connect" /\ pcMain' = "rc_next") =>
              /\ UNCHANGED << message, received, retry_count, attemptLog >>
              /\ Reconnecting'
        /\ (pcMain = "rc_next" /\ pcMain' # "rc_next") =>
              /\ ws.open /\ ws.openedBy = calls.attempts
              /\ calls.handshakes >= 1
              /\ \/ /\ pcMain' = "got"
                    /\ lastVia' = "reconnect"
                    /\ received' = Append(received, Unwrap(message'))
                    /\ attemptLog' = Append(attemptLog, "ok")
                    /\ UNCHANGED retry_count
                 \/ /\ pcMain' \in {"backoff", "returned"}
                    /\ attemptLog' = Append(attemptLog, "fail")
                    /\ retry_count' = retry_count - 1
                    /\ (pcMain' = "returned") = (calls.attempts = 3)
                    /\ UNCHANGED << message, received, ws >>
        /\ (Reconnecting /\ pcMain' = "got") => pcMain = "rc_next"
        /\ (calls'.attempts = 3 /\ FailedAttempts' = 3) => ChannelFailed'
      ]_vars

\* three handshakes succeeded, three first frames did not: the channel failed
C19_Witness ==
    /\ ChannelFailed
    /\ calls.handshakes = 3
    /\ calls.attempts = 3
    /\ attemptLog = << "fail", "fail", "fail" >>
    /\ ws = [open |-> TRUE, openedBy |-> 3]

----------------------------------------------------------------------------
(* Lock requests *)

\* the lock a unit is asking for at its position, "none" when it asks for none
WaitsFor(u) ==
    CASE u = "main" ->
           IF pcMain \in {"try_new", "play_lock", "update"} THEN "PLAYER"
           ELSE IF pcMain = "update_bar_lock" THEN "PROGRESS_BAR"
           ELSE "none"
      [] u = "kbd" ->
           IF pcKbd = "player_lock" THEN "PLAYER"
           ELSE IF pcKbd = "bar_lock" THEN "PROGRESS_BAR"
           ELSE "none"
      [] u = "tick" ->
           IF pcTick = "wait" THEN "PROGRESS_BAR" ELSE "none"

\* the unit asks for a lock that is held
Blocked(u) == WaitsFor(u) # "none" /\ locks[WaitsFor(u)] # Free

MainStep ==
    \/ Start \/ SelectStation \/ SpawnConnect \/ PlayerTryNew \/ AwaitConnect
    \/ Recv \/ RcClose \/ RcConnect \/ RcNext \/ Backoff
    \/ FirstMessage \/ LaterMessage \/ PlayLock \/ Play \/ SpawnKeyboard
    \/ UpdateLockPlayer \/ UpdateReadVolume \/ UpdateLockBar \/ UpdateApply
    \/ MainReturn
TickStep == TickLock \/ TickInc
KbdStep ==
    \/ KbdRead \/ KbdLockPlayer \/ KbdSetVolume \/ KbdLockBar \/ KbdSetPrefix
    \/ KbdUnlockPlayer

\* the unit holds a lock and can take its next step: it asks for no lock, or
\* for one that is free
Releasing(u) ==
    /\ Holds(u) # {}
    /\ ~Blocked(u)
    /\ \/ u = "main" /\ pcMain \in {"play_held", "update_player_held", "update_bar_held"}
                     /\ ENABLED MainStep
       \/ u = "tick" /\ pcTick = "held" /\ ENABLED TickStep
       \/ u = "kbd" /\ pcKbd \in {"player_held", "bar_lock", "bar_held", "player_unlock"}
                    /\ ENABLED KbdStep

(* C20: the units cannot deadlock on the two locks: no unit asks for the    *)
(* PLAYER lock while it holds the PROGRESS_BAR lock, and while the process  *)
(* runs every lock asked for is free or held by a unit that is on its way   *)
(* to release it, either at once or after taking the PROGRESS_BAR lock from *)
(* a unit that is releasing it.                                             *)
C20_NoLockDeadlock ==
    /\ \A u \in Units : WaitsFor(u) = "PLAYER" => "PROGRESS_BAR" \notin Holds(u)
    /\ Alive =>
         \A u \in Units :
           Blocked(u) =>
             LET h == locks[WaitsFor(u)]
             IN  /\ h \in Units \ {u}
                 /\ \/ Releasing(h)
                    \/ /\ Blocked(h)
                       /\ WaitsFor(u) = "PLAYER" /\ WaitsFor(h) = "PROGRESS_BAR"
                       /\ locks["PROGRESS_BAR"] \in Units \ {u, h}
                       /\ Releasing(locks["PROGRESS_BAR"])

\* the main task waits for the PLAYER lock of the keyboard thread, which waits
\* for the PROGRESS_BAR lock of the tick task
C20_Witness ==
    /\ pcMain = "update"
    /\ locks["PLAYER"] = "kbd"
    /\ pcKbd = "bar_lock"
    /\ locks["PROGRESS_BAR"] = "tick"
    /\ pcTick = "held"

====
